---- MODULE Spec2Model ----
(***************************************************************************)
(* Real-time synchronisation core of the OpenClaw PM dashboard backend:    *)
(* SocketService (socket.io handlers, connection registry, stale reaper),  *)
(* the websocket rate limiter and the OpenClaw notification bridge with    *)
(* its fallback file.                                                      *)
(*                                                                         *)
(* Time advances in steps of one reaper period (60 s).  The registry keeps *)
(* for every binding the time elapsed since lastActivity (field idle, in   *)
(* periods) instead of the absolute Date; the limiter keeps for every key  *)
(* the periods left until the entry expires (field ttl).                   *)
(***************************************************************************)
EXTENDS Integers, Sequences, FiniteSets, TLC

\* ---------------------------------------------------------------- bounds
MaxBurst == 3
MaxOver == 2
MaxComms == 2
MaxCompleted == 2
MaxFallback == 2
MaxHandlers == 2
MaxSeconds == 2
MaxCalls == 3

\* ------------------------------------------------------ program constants
sweepPeriod == 60000                \* setInterval period, ms
staleThreshold == 5 * 60 * 1000     \* ms
points == 1000
duration == 60                      \* s
blockDuration == 60                 \* s
keepLast == 50
apiPoints == 100                    \* RATE_LIMIT_MAX_REQUESTS default
rateLimitWindowMs == 900            \* RATE_LIMIT_WINDOW_MS default
apiBlockDuration == 60              \* s
msPerSecond == 1000

\* a time span in reaper periods
PeriodsOfMs(ms) == ms \div sweepPeriod
PeriodsOfSeconds(seconds) == (seconds * 1000) \div sweepPeriod

\* ----------------------------------------------------------------- domains
Sockets == {"s1", "s2"}
AgentIds == {"a1", "a2"}
TaskIds == {"t1", "t9"}
ProjectIds == {"p1", "p9"}
NoAgent == "none"
NoAddress == ""

AgentStatuses == {"active", "idle", "busy", "offline", "error"}
TaskStatuses == {"pending", "assigned", "in_progress", "completed", "failed", "cancelled"}
ProjectStatuses == {"planning", "active", "completed", "cancelled", "on-hold"}
CommunicationTypes ==
  {"task_assignment", "status_update", "error_report", "coordination", "notification", "user_message"}
Invalid == "bogus"
Null == 0 - 1

\* socket.handshake.address of each connection: s1 and s2 come from one host
Address == [s \in Sockets |-> "ip1"]

VARIABLES
  connectedClients,   \* Set<string> of socket ids
  closedSockets,      \* socket ids whose disconnect has been handled (ids are never reused)
  connectedAgents,    \* Map<socketId, ConnectedAgent>, in insertion order
  agents,             \* table agents: id -> row
  tasks,              \* table tasks: id -> row
  projects,           \* table projects: id -> row
  communications,     \* table communications, in insertion order
  websocketLimiter,   \* RateLimiterMemory storage: key -> [consumed, ttl]
  notificationFile,   \* pm-dashboard-notifications.json: sequence of entries
  appended,           \* number of entries ever pushed to the fallback file
  sweepDue,           \* the setInterval timer has fired and its callback is pending
  packet,             \* the inbound packet handled by the last step
  emitted,            \* the envelopes sent to sockets by the last step
  delivered,          \* the notifications the openclaw command delivered in the last step
  running,            \* handleTaskUpdate invocations split at their awaits, in submission order
  pending,            \* invocations of the other handlers split at their awaits, in submission order
  apiLimiter,         \* RateLimiterMemory storage of the REST limiter: key -> [consumed, ttl in ms]
  apiElapsed,         \* ms passed since the server started
  apiAdmitted,        \* number of /api requests the limiter has let through
  response            \* the HTTP response of the last /api request

vars == <<connectedClients, closedSockets, connectedAgents, agents, tasks, projects,
          communications, websocketLimiter, notificationFile, appended, sweepDue,
          packet, emitted, delivered, running, pending, apiLimiter, apiElapsed,
          apiAdmitted, response>>

store == <<agents, tasks, projects, communications>>
apiVars == <<apiLimiter, apiElapsed, apiAdmitted, response>>

\* ------------------------------------------------------- JavaScript Map
MapHas(m, k) == \E i \in 1..Len(m) : m[i].socketId = k
MapGet(m, k) == m[CHOOSE i \in 1..Len(m) : m[i].socketId = k]
MapSet(m, k, v) ==
  IF MapHas(m, k)
  THEN [i \in 1..Len(m) |-> IF m[i].socketId = k THEN v ELSE m[i]]
  ELSE Append(m, v)
MapDelete(m, k) == SelectSeq(m, LAMBDA e : e.socketId # k)

ConnectedAgent(s, a) == [socketId |-> s, agentId |-> a, idle |-> 0]

\* ------------------------------------------------------------ envelopes
\* the fields of the payload object each event is emitted with
PayloadKeys(event) ==
  CASE event = "initial_data" ->
         {"agents", "projects", "tasks", "connectedAgents", "timestamp"}
    [] event = "agent_update" -> {"type", "agent", "timestamp"}
    [] event = "task_update" -> {"type", "task", "timestamp"}
    [] event = "project_update" -> {"type", "project", "timestamp"}
    [] event = "agent_message" -> {"type", "message", "timestamp"}
    [] event = "direct_message" -> {"message", "timestamp"}
    [] event = "user_input_request" ->
         {"agentId", "agentName", "context", "question", "timestamp"}
    [] event = "rate_limit_exceeded" -> {"message", "timestamp"}
    [] event = "pong" -> {"timestamp"}
    [] OTHER -> {"message"}

\* type: the payload's type (or the message of an error), id and status: the
\* entity the payload carries, agents: the ids in the agents list of a snapshot
Envelope(event, type, id, status) ==
  [event |-> event, type |-> type, id |-> id, status |-> status,
   keys |-> PayloadKeys(event), agents |-> {}]
SocketEmit(s, env) ==
  {[to |-> s, event |-> env.event, type |-> env.type, id |-> env.id,
    status |-> env.status, keys |-> env.keys, agents |-> env.agents]}
\* io.emit reaching the registered agents only
IoEmitBound(clients, env) ==
  UNION {SocketEmit(c, env) : c \in {x \in clients : MapHas(connectedAgents, x)}}
IoEmit(clients, env) == UNION {SocketEmit(c, env) : c \in clients}

\* target: the id the packet's data names (agent, task or project)
NoPacket == [socket |-> "", event |-> "", target |-> "", admitted |-> FALSE]
Packet(s, event, target) == [socket |-> s, event |-> event, target |-> target, admitted |-> TRUE]

\* ------------------------------------------- RateLimiterMemory (websocket)
Keys == {IF Address[s] # NoAddress THEN Address[s] ELSE s : s \in Sockets}
NoEntry == [consumed |-> 0, ttl |-> 0]

MemoryStorageIncrby(storage, key, secDuration) ==
  IF storage[key].ttl > 0
  THEN [storage EXCEPT ![key].consumed = @ + 1]
  ELSE [storage EXCEPT ![key] = [consumed |-> 1, ttl |-> PeriodsOfSeconds(secDuration)]]

\* consume(key): the storage after the call
Consume(storage, key) ==
  LET res == MemoryStorageIncrby(storage, key, duration) IN
  IF res[key].consumed > points /\ blockDuration > 0 /\ res[key].consumed <= points + 1
  THEN [res EXCEPT ![key].ttl = PeriodsOfSeconds(blockDuration)]
  ELSE res

\* consume(key) resolves (TRUE) or rejects (FALSE)
ConsumeResolves(storage, key) ==
  MemoryStorageIncrby(storage, key, duration)[key].consumed <= points

RateKey(socketId, ip) == IF ip # NoAddress THEN ip ELSE socketId

\* websocketRateLimiter(socket.id, socket.handshake.address) lets the packet through
websocketRateLimiter(socketId, ip) ==
  ConsumeResolves(websocketLimiter, RateKey(socketId, ip))

\* ----------------------------------------------- RateLimiterMemory (REST)
\* apiLimiter with no RATE_LIMIT_* variable set:
\*   points   = parseInt('100')
\*   duration = parseInt('900') / 1000 seconds, held by the storage in ms
ApiKeys == {"ip1"}
NoResponse == [status |-> 0, retryAfter |-> 0]

apiDurationMs == (rateLimitWindowMs * msPerSecond) \div msPerSecond
apiBlockDurationMs == apiBlockDuration * msPerSecond

\* apiLimiter.consume(key): the storage after the call
ApiConsume(storage, key) ==
  LET res == IF storage[key].ttl > 0
             THEN [storage EXCEPT ![key].consumed = @ + 1]
             ELSE [storage EXCEPT ![key] = [consumed |-> 1, ttl |-> apiDurationMs]]
  IN IF res[key].consumed > apiPoints /\ apiBlockDuration > 0
        /\ res[key].consumed <= apiPoints + 1
     THEN [res EXCEPT ![key].ttl = apiBlockDurationMs]
     ELSE res

\* Math.round(ms / 1000)
RoundSeconds(ms) == (ms + (msPerSecond \div 2)) \div msPerSecond

\* ------------------------------------------------ OpenClawMessagingService
\* slice(0, 50) in place of slice(-50)
writeNotificationFileKeepFirst(notifications, notification) ==
  LET pushed == Append(notifications, notification) IN
  IF Len(pushed) > keepLast THEN SubSeq(pushed, 1, keepLast) ELSE pushed
writeNotificationFile(notifications, notification) ==
  LET pushed == Append(notifications, notification) IN
  IF Len(pushed) > keepLast
  THEN SubSeq(pushed, Len(pushed) - keepLast + 1, Len(pushed))
  ELSE pushed

\* the notifications built by notifyAgentStatusChange, notifyTaskUpdate,
\* notifyProjectUpdate and requestUserInput
AgentStatusNotification(status) ==
  [title |-> "Agent Status", priority |-> IF status = "error" THEN "high" ELSE "medium"]
TaskNotification(status) ==
  [title |-> "Task", priority |-> IF status = "failed" THEN "high" ELSE "medium"]
ProjectNotification(status) ==
  [title |-> "Project Update", priority |-> IF status = "completed" THEN "medium" ELSE "low"]
UserInputNotification == [title |-> "Input Needed", priority |-> "high"]
\* notifySystemEvent(event, details, severity)
SystemEventNotification(severity) == [title |-> "System Event", priority |-> severity]

\* notifyUser without the fallback write in its catch block
notifyUserNoFallback(notification, failCap) ==
  \/ /\ delivered' = {notification}
     /\ UNCHANGED <<notificationFile, appended>>
  \/ /\ appended < failCap
     /\ delivered' = {}
     /\ UNCHANGED <<notificationFile, appended>>
\* notifyUser: the openclaw command succeeds, or it fails and the notification
\* goes to the fallback file; failCap bounds the number of failures explored.
\* An entry of the file is the notification with the number of the append.
notifyUser(notification, failCap) ==
  \/ /\ delivered' = {notification}
     /\ UNCHANGED <<notificationFile, appended>>
  \/ /\ appended < failCap
     /\ delivered' = {}
     /\ appended' = appended + 1
     /\ notificationFile' =
          writeNotificationFile(notificationFile,
                                [seq |-> appended + 1, title |-> notification.title,
                                 priority |-> notification.priority])

NotNotified == delivered' = {} /\ UNCHANGED <<notificationFile, appended>>

\* The server's process.on('unhandledRejection') handler: it reports the
\* rejection as a system event of high severity.
unhandledRejection(failCap) == notifyUser(SystemEventNotification("high"), failCap)

\* ------------------------------------------------------------------ Init
TaskRow(status) ==
  [status |-> status, started_at |-> FALSE, completed_at |-> FALSE, metadata |-> "{}"]
ProjectRow(status, progress) == [status |-> status, progress |-> progress, metadata |-> "{}"]

Init ==
  /\ connectedClients = {}
  /\ closedSockets = {}
  /\ connectedAgents = <<>>
  /\ agents = <<>>
  /\ tasks = [t \in {"t1"} |-> TaskRow("pending")]
  /\ projects = [p \in {"p1"} |-> ProjectRow("planning", 0)]
  /\ communications = <<>>
  /\ websocketLimiter = [k \in Keys |-> NoEntry]
  /\ notificationFile = <<>>
  /\ appended = 0
  /\ sweepDue = FALSE
  /\ packet = NoPacket
  /\ emitted = {}
  /\ delivered = {}
  /\ running = <<>>
  /\ pending = <<>>
  /\ apiLimiter = [k \in ApiKeys |-> NoEntry]
  /\ apiElapsed = 0
  /\ apiAdmitted = 0
  /\ response = NoResponse

\* -------------------------------------------------------------- connection
\* sendInitialData with no agent in the snapshot
sendInitialDataEmpty(s) ==
  SocketEmit(s, Envelope("initial_data", "snapshot", "", ""))
\* sendInitialData: SELECT * FROM agents (projects, tasks), then socket.emit
sendInitialData(s) ==
  SocketEmit(s, [Envelope("initial_data", "snapshot", "", "") EXCEPT !.agents = DOMAIN agents])

\* handleConnection
Connect(s) ==
  /\ s \notin connectedClients \cup closedSockets
  /\ connectedClients' = connectedClients \cup {s}
  /\ emitted' = sendInitialData(s)
  /\ packet' = NoPacket
  /\ NotNotified
  /\ UNCHANGED <<closedSockets, connectedAgents, agents, tasks, projects, communications,
                 websocketLimiter, sweepDue, running, pending, apiVars>>

\* ------------------------------------------------- socket.use middleware
\* The packet passes the limiter: next() runs the handler.
Admit(s, event, target, cap) ==
  /\ s \in connectedClients
  /\ websocketLimiter[RateKey(s, Address[s])].consumed < cap
  /\ websocketRateLimiter(s, Address[s])
  /\ websocketLimiter' = Consume(websocketLimiter, RateKey(s, Address[s]))
  /\ packet' = Packet(s, event, target)

Events == {"agent_register", "agent_status", "task_update", "project_update",
           "agent_message", "request_user_input", "ping", "subscribe"}

\* The limiter rejects: next() is not called.  The catch block of
\* websocketRateLimiter reads `key`, which is declared inside the try block:
\* either it returns false and rate_limit_exceeded is emitted, or the read
\* throws a ReferenceError, the middleware's promise rejects with no emit and
\* the server's unhandledRejection handler reports it.
RateLimited(s, event, cap, failCap) ==
  /\ s \in connectedClients
  /\ websocketLimiter[RateKey(s, Address[s])].consumed < cap
  /\ ~websocketRateLimiter(s, Address[s])
  /\ websocketLimiter' = Consume(websocketLimiter, RateKey(s, Address[s]))
  /\ packet' = [socket |-> s, event |-> event, target |-> "", admitted |-> FALSE]
  /\ \/ /\ emitted' = SocketEmit(s, Envelope("rate_limit_exceeded", "", "", ""))
        /\ NotNotified
     \/ /\ emitted' = {}
        /\ unhandledRejection(failCap)
  /\ UNCHANGED <<connectedClients, closedSockets, connectedAgents, agents, tasks, projects,
                 communications, sweepDue, running, pending, apiVars>>

\* what no handler of a socket event touches
UnchangedConnections == UNCHANGED <<connectedClients, closedSockets, sweepDue, running, pending, apiVars>>

\* ------------------------------------------------------------ agent rows
RECURSIVE Factorial(_)
Factorial(n) == IF n <= 1 THEN 1 ELSE n * Factorial(n - 1)
\* success_rate is a REAL: it is kept as a multiple of 1/RateScale
RateScale == Factorial(MaxCompleted + 1)

SocketRows(s) == {x \in DOMAIN agents : agents[x].socket_id = s}

\* datetime('now'): an instant is named by the number of connections the
\* server has accepted so far
Now == Cardinality(connectedClients \cup closedSockets)

\* INSERT OR REPLACE with every column replaced by the statement's defaults
UpsertAgentFresh(a, s) ==
  LET row == [status |-> "active", socket_id |-> s, tasks_completed |-> 0,
              average_task_time |-> 0, success_rate |-> 100 * RateScale,
              error_count |-> 0, created_at |-> Now]
  IN [x \in DOMAIN agents \cup {a} |-> IF x = a THEN row ELSE agents[x]]
\* INSERT OR REPLACE INTO agents ... COALESCE((SELECT ... WHERE id = ?), default)
UpsertAgent(a, s) ==
  LET row == [status |-> "active", socket_id |-> s,
              tasks_completed |-> IF a \in DOMAIN agents THEN agents[a].tasks_completed ELSE 0,
              average_task_time |-> IF a \in DOMAIN agents THEN agents[a].average_task_time
                                    ELSE 0,
              success_rate |-> IF a \in DOMAIN agents THEN agents[a].success_rate
                               ELSE 100 * RateScale,
              error_count |-> IF a \in DOMAIN agents THEN agents[a].error_count ELSE 0,
              created_at |-> IF a \in DOMAIN agents THEN agents[a].created_at ELSE Now]
  IN [x \in DOMAIN agents \cup {a} |-> IF x = a THEN row ELSE agents[x]]

\* INSERT OR REPLACE deletes the row it replaces (PRAGMA foreign_keys = ON):
\* the communications that reference the row take ON DELETE SET NULL
ReplacedReferences(a) ==
  IF a \notin DOMAIN agents THEN communications
  ELSE [i \in 1..Len(communications) |->
          [communications[i] EXCEPT !.from_agent_id = IF @ = a THEN NoAgent ELSE @,
                                    !.to_agent_id = IF @ = a THEN NoAgent ELSE @]]

\* handleAgentRegistration; valid: name and type satisfy the table's constraints
handleAgentRegistration(s, a, valid, cap, failCap) ==
  /\ Admit(s, "agent_register", a, cap)
  /\ UnchangedConnections
  /\ UNCHANGED <<tasks, projects>>
  /\ communications' = IF valid THEN ReplacedReferences(a) ELSE communications
  /\ IF valid
     THEN /\ agents' = UpsertAgent(a, s)
          /\ connectedAgents' = MapSet(connectedAgents, s, ConnectedAgent(s, a))
          /\ emitted' = IoEmit(connectedClients, Envelope("agent_update", "registered", a, "active"))
          /\ notifyUser(AgentStatusNotification("registered"), failCap)
     ELSE /\ emitted' = SocketEmit(s, Envelope("registration_error", "Failed to register agent", "", ""))
          /\ UNCHANGED <<agents, connectedAgents>>
          /\ NotNotified

AgentStatusInputs == {"busy", "error", Invalid}

\* handleAgentStatusUpdate
handleAgentStatusUpdate(s, status, cap, failCap) ==
  /\ Admit(s, "agent_status", "", cap)
  /\ UnchangedConnections
  /\ UNCHANGED <<tasks, projects, communications>>
  /\ IF ~MapHas(connectedAgents, s)
     THEN /\ emitted' = SocketEmit(s, Envelope("error", "Agent not registered", "", ""))
          /\ UNCHANGED <<agents, connectedAgents>>
          /\ NotNotified
     ELSE IF status \notin AgentStatuses /\ SocketRows(s) # {}
     THEN \* the CHECK constraint on status fails the UPDATE
          /\ emitted' = SocketEmit(s, Envelope("error", "Failed to update agent status", "", ""))
          /\ UNCHANGED <<agents, connectedAgents>>
          /\ NotNotified
     ELSE /\ agents' = [x \in DOMAIN agents |->
                          IF x \in SocketRows(s) THEN [agents[x] EXCEPT !.status = status]
                          ELSE agents[x]]
          /\ connectedAgents' =
               MapSet(connectedAgents, s, [MapGet(connectedAgents, s) EXCEPT !.idle = 0])
          /\ IF SocketRows(s) = {}
             THEN \* SELECT returns no row and transformAgentFromDB(undefined) throws
                  /\ emitted' = SocketEmit(s, Envelope("error", "Failed to update agent status", "", ""))
                  /\ NotNotified
             ELSE /\ \E x \in SocketRows(s) :
                       emitted' = IoEmit(connectedClients,
                                         Envelope("agent_update", "status_updated", x, status))
                  /\ IF status = "error"
                     THEN notifyUser(AgentStatusNotification(status), failCap)
                     ELSE NotNotified

\* ------------------------------------------------------------- task rows
TaskStatusInputs == {"in_progress", "completed", "failed", "cancelled", Invalid}
MetadataInputs == {"{}", "{m}"}

\* UPDATE tasks SET status = ?, started_at = CASE ..., completed_at = CASE ...,
\* metadata = ?: the CASE expressions read the row as it was before the UPDATE
UpdateTask(row, status, metadata) ==
  [status |-> status,
   started_at |-> IF row.status = "in_progress" /\ ~row.started_at THEN TRUE
                  ELSE row.started_at,
   completed_at |-> IF row.status \in {"completed", "failed"} THEN TRUE
                    ELSE row.completed_at,
   metadata |-> metadata]

\* updateAgentPerformance counting a failure as a completion without error
PerformanceNoError(agent, success) ==
  LET tasksCompleted == agent.tasks_completed + 1
      successRate == ((agent.success_rate * agent.tasks_completed)
                       + (IF success THEN 100 * RateScale ELSE 0)) \div tasksCompleted
  IN [tasks_completed |-> tasksCompleted, success_rate |-> successRate,
      error_count |-> agent.error_count]
\* the values updateAgentPerformance computes from the row it has read
Performance(agent, success) ==
  LET tasksCompleted == agent.tasks_completed + 1
      successRate == ((agent.success_rate * agent.tasks_completed)
                       + (IF success THEN 100 * RateScale ELSE 0)) \div tasksCompleted
      errorCount == IF success THEN agent.error_count ELSE agent.error_count + 1
  IN [tasks_completed |-> tasksCompleted, success_rate |-> successRate,
      error_count |-> errorCount]

\* UPDATE agents SET tasks_completed = ?, success_rate = ?, error_count = ? WHERE id = ?
WritePerformance(table, agentId, values) ==
  [table EXCEPT ![agentId] =
     [@ EXCEPT !.tasks_completed = values.tasks_completed,
               !.success_rate = values.success_rate,
               !.error_count = values.error_count]]

\* updateAgentPerformance run without interruption: the agents table after the call
updateAgentPerformance(agentId, success) ==
  IF agentId \notin DOMAIN agents THEN agents
  ELSE WritePerformance(agents, agentId, Performance(agents[agentId], success))

\* handleTaskUpdate
handleTaskUpdate(s, taskId, status, metadata, cap, failCap) ==
  /\ Admit(s, "task_update", taskId, cap)
  /\ UnchangedConnections
  /\ UNCHANGED <<projects, communications, connectedAgents>>
  /\ IF taskId \notin DOMAIN tasks
     THEN /\ emitted' = SocketEmit(s, Envelope("error", "Task not found", "", ""))
          /\ UNCHANGED <<tasks, agents>>
          /\ NotNotified
     ELSE IF status \notin TaskStatuses
     THEN \* the CHECK constraint on status fails the UPDATE
          /\ emitted' = SocketEmit(s, Envelope("error", "Failed to update task", "", ""))
          /\ UNCHANGED <<tasks, agents>>
          /\ NotNotified
     ELSE /\ tasks' = [tasks EXCEPT ![taskId] = UpdateTask(@, status, metadata)]
          /\ emitted' = IoEmit(connectedClients, Envelope("task_update", "updated", taskId, status))
          /\ IF MapHas(connectedAgents, s) /\ status \in {"completed", "failed"}
             THEN LET agentId == MapGet(connectedAgents, s).agentId IN
                  /\ agentId \in DOMAIN agents => agents[agentId].tasks_completed < MaxCompleted
                  /\ agents' = updateAgentPerformance(agentId, status = "completed")
                  /\ notifyUser(TaskNotification(status), failCap)
             ELSE /\ UNCHANGED agents
                  /\ NotNotified

\* ---------------------------------------------------------- project rows
ProjectStatusInputs == {"active", "completed", Invalid}
ProgressInputs == {Null, 40, 101}

\* handleProjectUpdate
handleProjectUpdate(s, projectId, status, progress, metadata, cap, failCap) ==
  /\ Admit(s, "project_update", projectId, cap)
  /\ UnchangedConnections
  /\ UNCHANGED <<tasks, agents, communications, connectedAgents>>
  /\ IF projectId \notin DOMAIN projects
     THEN /\ emitted' = SocketEmit(s, Envelope("error", "Project not found", "", ""))
          /\ UNCHANGED projects
          /\ NotNotified
     ELSE IF status \notin ProjectStatuses \/ (progress # Null /\ (progress < 0 \/ progress > 100))
     THEN \* a CHECK constraint (status, progress) fails the UPDATE
          /\ emitted' = SocketEmit(s, Envelope("error", "Failed to update project", "", ""))
          /\ UNCHANGED projects
          /\ NotNotified
     ELSE /\ projects' = [projects EXCEPT ![projectId] =
                            [status |-> status, progress |-> progress, metadata |-> metadata]]
          /\ emitted' = IoEmit(connectedClients,
                               Envelope("project_update", "updated", projectId, status))
          /\ IF status = "completed"
             THEN notifyUser(ProjectNotification(status), failCap)
             ELSE NotNotified

\* -------------------------------------------------------- communications
MessageTypeInputs == {"coordination", Invalid}

\* filter in place of find: every socket bound to the target
TargetSocketAll(toAgentId) ==
  {connectedAgents[i].socketId :
     i \in {j \in 1..Len(connectedAgents) : connectedAgents[j].agentId = toAgentId}}
\* Array.from(connectedAgents.entries()).find(agent.agentId === toAgentId)?.[0]
TargetSocket(toAgentId) ==
  LET hits == {i \in 1..Len(connectedAgents) : connectedAgents[i].agentId = toAgentId} IN
  IF hits = {} THEN {}
  ELSE {connectedAgents[CHOOSE i \in hits : \A j \in hits : i <= j].socketId}

\* handleAgentMessage; toAgentId = NoAgent: data.toAgentId is absent
handleAgentMessage(s, toAgentId, type, cap) ==
  /\ Admit(s, "agent_message", toAgentId, cap)
  /\ UnchangedConnections
  /\ UNCHANGED <<tasks, agents, projects, connectedAgents>>
  /\ NotNotified
  /\ IF ~MapHas(connectedAgents, s)
     THEN /\ emitted' = SocketEmit(s, Envelope("error", "Agent not registered", "", ""))
          /\ UNCHANGED communications
     ELSE IF \/ type \notin CommunicationTypes
             \/ MapGet(connectedAgents, s).agentId \notin DOMAIN agents
             \/ (toAgentId # NoAgent /\ toAgentId \notin DOMAIN agents)
     THEN \* the CHECK constraint on type or a foreign key fails the INSERT
          /\ emitted' = SocketEmit(s, Envelope("error", "Failed to send message", "", ""))
          /\ UNCHANGED communications
     ELSE LET from == MapGet(connectedAgents, s).agentId IN
          /\ Len(communications) < MaxComms
          /\ communications' = Append(communications,
               [from_agent_id |-> from, to_agent_id |-> toAgentId, type |-> type, read |-> 0])
          /\ emitted' =
               IoEmit(connectedClients, Envelope("agent_message", "new", from, toAgentId))
               \cup (IF toAgentId # NoAgent
                     THEN IoEmit(TargetSocket(toAgentId),
                                 Envelope("direct_message", "", from, toAgentId))
                     ELSE {})

\* handleUserInputRequest
handleUserInputRequest(s, cap, failCap) ==
  /\ Admit(s, "request_user_input", "", cap)
  /\ UnchangedConnections
  /\ UNCHANGED <<tasks, agents, projects, communications, connectedAgents>>
  /\ IF ~MapHas(connectedAgents, s)
     THEN /\ emitted' = SocketEmit(s, Envelope("error", "Agent not registered", "", ""))
          /\ NotNotified
     ELSE /\ notifyUser(UserInputNotification, failCap)
          /\ emitted' = IoEmit(connectedClients,
                               Envelope("user_input_request", "", MapGet(connectedAgents, s).agentId, ""))

\* socket.on('ping')
Ping(s, cap) ==
  /\ Admit(s, "ping", "", cap)
  /\ UnchangedConnections
  /\ UNCHANGED <<tasks, agents, projects, communications, connectedAgents>>
  /\ NotNotified
  /\ emitted' = SocketEmit(s, Envelope("pong", "", "", ""))

\* handleSubscription: the socket joins rooms, to which nothing is ever emitted
handleSubscription(s, cap) ==
  /\ Admit(s, "subscribe", "", cap)
  /\ UnchangedConnections
  /\ UNCHANGED <<tasks, agents, projects, communications, connectedAgents>>
  /\ NotNotified
  /\ emitted' = {}

\* ------------------------------------------------------------ disconnect
\* UPDATE agents SET status = 'offline' WHERE id = the bound agent's id
MarkOfflineById(s) ==
  [x \in DOMAIN agents |->
     IF x = MapGet(connectedAgents, s).agentId THEN [agents[x] EXCEPT !.status = "offline"]
     ELSE agents[x]]
\* UPDATE agents SET status = 'offline' WHERE socket_id = ?
MarkOffline(s) ==
  [x \in DOMAIN agents |->
     IF x \in SocketRows(s) THEN [agents[x] EXCEPT !.status = "offline"] ELSE agents[x]]

\* handleDisconnection
handleDisconnection(s, failCap) ==
  /\ s \in connectedClients
  /\ connectedClients' = connectedClients \ {s}
  /\ closedSockets' = closedSockets \cup {s}
  /\ packet' = NoPacket
  /\ UNCHANGED <<tasks, projects, communications, websocketLimiter, sweepDue, running, pending, apiVars>>
  /\ IF MapHas(connectedAgents, s)
     THEN /\ agents' = MarkOffline(s)
          /\ emitted' = IoEmit(connectedClients \ {s},
                               Envelope("agent_update", "disconnected",
                                        MapGet(connectedAgents, s).agentId, "offline"))
          /\ notifyUser(AgentStatusNotification("disconnected"), failCap)
          /\ connectedAgents' = MapDelete(connectedAgents, s)
     ELSE /\ emitted' = {}
          /\ UNCHANGED <<agents, connectedAgents>>
          /\ NotNotified

\* ------------------------------------------- handleTaskUpdate, await by await
\* socket.io hands every packet to its listener as it arrives and does not
\* wait for the promise of an async listener: an invocation of
\* handleTaskUpdate runs up to its next await in one step, and the steps of
\* several invocations interleave.  pc names the await an invocation is at.
NoRead == [tasks_completed |-> 0, success_rate |-> 0, error_count |-> 0]
Invocation(s, taskId, status, pc) ==
  [socket |-> s, taskId |-> taskId, status |-> status, pc |-> pc,
   agentId |-> NoAgent, read |-> NoRead]

socketVars == <<connectedClients, closedSockets, connectedAgents, agents, tasks, projects,
                communications, websocketLimiter, notificationFile, appended, sweepDue,
                packet, emitted, delivered, running, pending>>

\* the packet arrives: the listener starts and its UPDATE tasks runs
TaskUpdateStart(s, taskId, status, metadata, cap) ==
  /\ Admit(s, "task_update", taskId, cap)
  /\ Len(running) < MaxHandlers
  /\ NotNotified
  /\ UNCHANGED <<connectedClients, closedSockets, connectedAgents, agents, projects,
                 communications, sweepDue, pending, apiVars>>
  /\ IF taskId \in DOMAIN tasks /\ status \notin TaskStatuses
     THEN \* the CHECK constraint on status fails the UPDATE
          /\ emitted' = SocketEmit(s, Envelope("error", "Failed to update task", "", ""))
          /\ running' = Append(running, Invocation(s, taskId, status, "done"))
          /\ UNCHANGED tasks
     ELSE /\ emitted' = {}
          /\ running' = Append(running, Invocation(s, taskId, status, "select"))
          /\ tasks' = [t \in DOMAIN tasks |->
                         IF t = taskId THEN UpdateTask(tasks[t], status, metadata) ELSE tasks[t]]

\* SELECT * FROM tasks resolves: the broadcast, then the call of
\* updateAgentPerformance up to its SELECT
TaskUpdateSelect(i) ==
  LET h == running[i] IN
  /\ i \in DOMAIN running
  /\ h.pc = "select"
  /\ packet' = NoPacket
  /\ NotNotified
  /\ UNCHANGED <<connectedClients, closedSockets, connectedAgents, agents, tasks, projects,
                 communications, websocketLimiter, sweepDue, pending, apiVars>>
  /\ IF h.taskId \notin DOMAIN tasks
     THEN /\ emitted' = SocketEmit(h.socket, Envelope("error", "Task not found", "", ""))
          /\ running' = [running EXCEPT ![i].pc = "done"]
     ELSE /\ emitted' = IoEmit(connectedClients,
                               Envelope("task_update", "updated", h.taskId, tasks[h.taskId].status))
          /\ IF MapHas(connectedAgents, h.socket) /\ h.status \in {"completed", "failed"}
             THEN running' = [running EXCEPT ![i].pc = "perfSelect",
                                             ![i].agentId = MapGet(connectedAgents, h.socket).agentId]
             ELSE running' = [running EXCEPT ![i].pc = "done"]

\* updateAgentPerformance: SELECT * FROM agents WHERE id = ? resolves
PerformanceSelect(i) ==
  LET h == running[i] IN
  /\ i \in DOMAIN running
  /\ h.pc = "perfSelect"
  /\ h.agentId \in DOMAIN agents => agents[h.agentId].tasks_completed < MaxCompleted
  /\ packet' = NoPacket
  /\ emitted' = {}
  /\ NotNotified
  /\ UNCHANGED <<connectedClients, closedSockets, connectedAgents, agents, tasks, projects,
                 communications, websocketLimiter, sweepDue, pending, apiVars>>
  /\ IF h.agentId \notin DOMAIN agents
     THEN running' = [running EXCEPT ![i].pc = "notify"]
     ELSE running' = [running EXCEPT ![i].pc = "perfUpdate",
                                     ![i].read = Performance(agents[h.agentId],
                                                             h.status = "completed")]

\* updateAgentPerformance: UPDATE agents runs with the values computed from the read
PerformanceUpdate(i) ==
  LET h == running[i] IN
  /\ i \in DOMAIN running
  /\ h.pc = "perfUpdate"
  /\ agents' = WritePerformance(agents, h.agentId, h.read)
  /\ running' = [running EXCEPT ![i].pc = "notify"]
  /\ packet' = NoPacket
  /\ emitted' = {}
  /\ NotNotified
  /\ UNCHANGED <<connectedClients, closedSockets, connectedAgents, tasks, projects,
                 communications, websocketLimiter, sweepDue, pending, apiVars>>

\* notifyTaskUpdate, the last await of the invocation
TaskUpdateNotify(i, failCap) ==
  LET h == running[i] IN
  /\ i \in DOMAIN running
  /\ h.pc = "notify"
  /\ running' = [running EXCEPT ![i].pc = "done"]
  /\ packet' = NoPacket
  /\ emitted' = {}
  /\ notifyUser(TaskNotification(h.status), failCap)
  /\ UNCHANGED <<connectedClients, closedSockets, connectedAgents, agents, tasks, projects,
                 communications, websocketLimiter, sweepDue, pending, apiVars>>

\* the database call invocation i awaits rejects: the SELECT of
\* handleTaskUpdate is inside the handler's try block, the calls of
\* updateAgentPerformance are inside its own, which logs and returns
PersistenceFails(i) ==
  LET h == running[i] IN
  /\ i \in DOMAIN running
  /\ h.pc \in {"select", "perfSelect", "perfUpdate"}
  /\ packet' = NoPacket
  /\ NotNotified
  /\ UNCHANGED <<connectedClients, closedSockets, connectedAgents, agents, tasks, projects,
                 communications, websocketLimiter, sweepDue, pending, apiVars>>
  /\ IF h.pc = "select"
     THEN /\ emitted' = SocketEmit(h.socket, Envelope("error", "Failed to update task", "", ""))
          /\ running' = [running EXCEPT ![i].pc = "done"]
     ELSE /\ emitted' = {}
          /\ running' = [running EXCEPT ![i].pc = "notify"]

\* ------------------- connection, registration, user input, await by await
\* An invocation of handleConnection, handleAgentRegistration or
\* handleUserInputRequest at one of its awaits.  agents: the rows sendInitialData
\* has read, file: the fallback file as writeNotificationFile has read it,
\* broadcast: the invocation has emitted its io.emit.
Call(op, s, a, pc) ==
  [op |-> op, socket |-> s, agentId |-> a, pc |-> pc, agents |-> {}, file |-> <<>>,
   broadcast |-> FALSE]

Remove(calls, i) == SubSeq(calls, 1, i - 1) \o SubSeq(calls, i + 1, Len(calls))

\* handleConnection of s is at await sendInitialData: setupEventHandlers and
\* socket.on('disconnect') have not run yet
AwaitingInitialData(s) ==
  \E i \in 1..Len(pending) : pending[i].op = "connection" /\ pending[i].socket = s
Listening(s) == s \in connectedClients /\ ~AwaitingInitialData(s)

\* what no step of these invocations touches
UnchangedByCall == UNCHANGED <<closedSockets, tasks, projects, sweepDue, running, apiVars>>

\* handleConnection up to await sendInitialData, whose SELECTs run
handleConnectionStart(s) ==
  /\ s \notin connectedClients \cup closedSockets
  /\ Len(pending) < MaxCalls
  /\ connectedClients' = connectedClients \cup {s}
  /\ pending' = Append(pending, [Call("connection", s, NoAgent, "initialData")
                                   EXCEPT !.agents = DOMAIN agents])
  /\ packet' = NoPacket
  /\ emitted' = {}
  /\ NotNotified
  /\ UnchangedByCall
  /\ UNCHANGED <<connectedAgents, agents, communications, websocketLimiter>>

\* the SELECTs resolve: socket.emit('initial_data'), then the listeners are installed
InitialDataSent(i) ==
  LET h == pending[i] IN
  /\ i \in DOMAIN pending
  /\ h.pc = "initialData"
  /\ emitted' = SocketEmit(h.socket, [Envelope("initial_data", "snapshot", "", "")
                                        EXCEPT !.agents = h.agents])
  /\ pending' = Remove(pending, i)
  /\ packet' = NoPacket
  /\ NotNotified
  /\ UnchangedByCall
  /\ UNCHANGED <<connectedClients, connectedAgents, agents, communications, websocketLimiter>>

\* socket.on('disconnect'): the listener exists once handleConnection has finished
onDisconnect(s, failCap) == Listening(s) /\ handleDisconnection(s, failCap)

\* agent_register arrives: handleAgentRegistration up to await db.run(INSERT OR REPLACE)
RegistrationStart(s, a, cap) ==
  /\ Listening(s)
  /\ Len(pending) < MaxCalls
  /\ Admit(s, "agent_register", a, cap)
  /\ agents' = UpsertAgent(a, s)
  /\ communications' = ReplacedReferences(a)
  /\ pending' = Append(pending, Call("registration", s, a, "insert"))
  /\ emitted' = {}
  /\ NotNotified
  /\ UnchangedByCall
  /\ UNCHANGED <<connectedClients, connectedAgents>>

\* the INSERT resolves: connectedAgents.set, the SELECT, io.emit, and the
\* call of notifyAgentStatusChange up to its await
RegistrationInserted(i) ==
  LET h == pending[i] IN
  /\ i \in DOMAIN pending
  /\ h.pc = "insert"
  /\ connectedAgents' = MapSet(connectedAgents, h.socket, ConnectedAgent(h.socket, h.agentId))
  /\ emitted' = IoEmit(connectedClients,
                       Envelope("agent_update", "registered", h.agentId, agents[h.agentId].status))
  /\ pending' = [pending EXCEPT ![i].pc = "deliver", ![i].broadcast = TRUE]
  /\ packet' = NoPacket
  /\ NotNotified
  /\ UnchangedByCall
  /\ UNCHANGED <<connectedClients, agents, communications, websocketLimiter>>

\* request_user_input arrives: handleUserInputRequest up to await requestUserInput
UserInputStart(s, cap) ==
  /\ Listening(s)
  /\ Len(pending) < MaxCalls
  /\ Admit(s, "request_user_input", "", cap)
  /\ NotNotified
  /\ UnchangedByCall
  /\ UNCHANGED <<connectedClients, connectedAgents, agents, communications>>
  /\ IF ~MapHas(connectedAgents, s)
     THEN /\ emitted' = SocketEmit(s, Envelope("error", "Agent not registered", "", ""))
          /\ UNCHANGED pending
     ELSE /\ emitted' = {}
          /\ pending' = Append(pending, Call("userInput", s, MapGet(connectedAgents, s).agentId,
                                             "deliver"))

CallNotification(h) ==
  IF h.op = "userInput" THEN UserInputNotification ELSE AgentStatusNotification("registered")

\* what the handler does once its notification call has returned:
\* handleUserInputRequest broadcasts, handleAgentRegistration ends
AfterNotification(h) ==
  IF h.op = "userInput"
  THEN IoEmit(connectedClients, Envelope("user_input_request", "", h.agentId, ""))
  ELSE {}

\* notifyUser: the openclaw command succeeds
Delivered(i) ==
  LET h == pending[i] IN
  /\ i \in DOMAIN pending
  /\ h.pc = "deliver"
  /\ delivered' = {CallNotification(h)}
  /\ emitted' = AfterNotification(h)
  /\ pending' = Remove(pending, i)
  /\ packet' = NoPacket
  /\ UnchangedByCall
  /\ UNCHANGED <<connectedClients, connectedAgents, agents, communications, websocketLimiter,
                 notificationFile, appended>>

\* notifyUser: the openclaw command fails or times out; writeNotificationFile
\* runs up to await fs.writeFile, having read the file
DeliveryFails(i, failCap) ==
  LET h == pending[i] IN
  /\ i \in DOMAIN pending
  /\ h.pc = "deliver"
  /\ appended < failCap
  /\ pending' = [pending EXCEPT ![i].pc = "write", ![i].file = notificationFile]
  /\ packet' = NoPacket
  /\ emitted' = {}
  /\ NotNotified
  /\ UnchangedByCall
  /\ UNCHANGED <<connectedClients, connectedAgents, agents, communications, websocketLimiter>>

\* writeNotificationFile: fs.writeFile stores what was read plus the new entry
FallbackWrite(i) ==
  LET h == pending[i] IN
  /\ i \in DOMAIN pending
  /\ h.pc = "write"
  /\ appended' = appended + 1
  /\ notificationFile' =
       writeNotificationFile(h.file, [seq |-> appended + 1,
                                      title |-> CallNotification(h).title,
                                      priority |-> CallNotification(h).priority])
  /\ delivered' = {}
  /\ emitted' = AfterNotification(h)
  /\ pending' = Remove(pending, i)
  /\ packet' = NoPacket
  /\ UnchangedByCall
  /\ UNCHANGED <<connectedClients, connectedAgents, agents, communications, websocketLimiter>>

\* ------------------------------------------------------- REST rate limiter
\* rateLimiter(req, res, next) for a request of address ip
rateLimiter(ip, cap) ==
  LET res == ApiConsume(apiLimiter, ip)
      secs == RoundSeconds(res[ip].ttl)
  IN /\ apiLimiter[ip].consumed < cap
     /\ apiLimiter' = res
     /\ IF res[ip].consumed <= apiPoints
        THEN /\ apiAdmitted' = apiAdmitted + 1
             /\ response' = [status |-> 200, retryAfter |-> 0]
        ELSE /\ UNCHANGED apiAdmitted
             /\ response' = [status |-> 429, retryAfter |-> IF secs = 0 THEN 1 ELSE secs]
     /\ UNCHANGED <<apiElapsed, socketVars>>

\* one second passes for the REST limiter
Elapse ==
  /\ apiElapsed < MaxSeconds * msPerSecond
  /\ apiElapsed' = apiElapsed + msPerSecond
  /\ apiLimiter' = [k \in ApiKeys |-> IF apiLimiter[k].ttl <= msPerSecond THEN NoEntry
                                       ELSE [apiLimiter[k] EXCEPT !.ttl = @ - msPerSecond]]
  /\ response' = NoResponse
  /\ UNCHANGED <<apiAdmitted, socketVars>>

\* ------------------------------------------------------------ time, reaper
Min(a, b) == IF a < b THEN a ELSE b

\* One reaper period passes: the setInterval timer fires, limiter entries age.
Tick ==
  /\ ~sweepDue
  /\ sweepDue' = TRUE
  /\ connectedAgents' =
       [i \in 1..Len(connectedAgents) |->
          [connectedAgents[i] EXCEPT !.idle = Min(@ + 1, PeriodsOfMs(staleThreshold) + 1)]]
  /\ websocketLimiter' =
       [k \in Keys |-> IF websocketLimiter[k].ttl <= 1 THEN NoEntry
                       ELSE [websocketLimiter[k] EXCEPT !.ttl = @ - 1]]
  /\ packet' = NoPacket
  /\ emitted' = {}
  /\ NotNotified
  /\ UNCHANGED <<connectedClients, closedSockets, agents, tasks, projects, communications,
                 running, pending, apiVars>>

\* now.getTime() - agent.lastActivity.getTime()
TimeSinceActivity(agent) == agent.idle * sweepPeriod

\* cleanupStaleConnections
cleanupStaleConnections ==
  /\ sweepDue
  /\ sweepDue' = FALSE
  /\ connectedAgents' =
       SelectSeq(connectedAgents, LAMBDA agent : ~(TimeSinceActivity(agent) > staleThreshold))
  /\ packet' = NoPacket
  /\ emitted' = {}
  /\ NotNotified
  /\ UNCHANGED <<connectedClients, closedSockets, agents, tasks, projects, communications,
                 websocketLimiter, running, pending, apiVars>>

\* ------------------------------------------------------- specifications
\* Spec: every socket event of two connections from one host within one
\* limiter window (at most MaxBurst packets), no timer.
Next ==
  \/ \E s \in Sockets : Connect(s)
  \/ \E s \in Sockets, valid \in BOOLEAN :
       handleAgentRegistration(s, "a1", valid, MaxBurst, MaxFallback)
  \/ \E s \in Sockets, status \in AgentStatusInputs :
       handleAgentStatusUpdate(s, status, MaxBurst, MaxFallback)
  \/ \E s \in Sockets, t \in TaskIds, status \in TaskStatusInputs :
       handleTaskUpdate(s, t, status, "{m}", MaxBurst, MaxFallback)
  \/ \E s \in Sockets, p \in ProjectIds, status \in ProjectStatusInputs,
        progress \in ProgressInputs :
       handleProjectUpdate(s, p, status, progress, "{m}", MaxBurst, MaxFallback)
  \/ \E s \in Sockets, to \in AgentIds \cup {NoAgent}, type \in MessageTypeInputs :
       handleAgentMessage(s, to, type, MaxBurst)
  \/ \E s \in Sockets : handleUserInputRequest(s, MaxBurst, MaxFallback)
  \/ \E s \in Sockets : Ping(s, MaxBurst)
  \/ \E s \in Sockets : handleSubscription(s, MaxBurst)
  \/ \E s \in Sockets : handleDisconnection(s, MaxFallback)

Spec == Init /\ [][Next]_vars

\* SpecReaper: registry and agent rows under the passage of time.
NextReaper ==
  \/ \E s \in Sockets : Connect(s)
  \/ \E s \in Sockets, a \in AgentIds :
       handleAgentRegistration(s, a, TRUE, MaxBurst, 0)
  \/ \E s \in Sockets : handleAgentStatusUpdate(s, "busy", MaxBurst, 0)
  \/ \E s \in Sockets : handleDisconnection(s, 0)
  \/ Tick
  \/ cleanupStaleConnections

SpecReaper == Init /\ [][NextReaper]_vars

\* SpecRate: one connection driving the websocket limiter past its points.
NextRate ==
  \/ Connect("s1")
  \/ \E e \in {"ping", "agent_register"} : RateLimited("s1", e, points + MaxOver, MaxFallback)
  \/ handleAgentRegistration("s1", "a1", TRUE, points + MaxOver, MaxFallback)
  \/ Ping("s1", points + MaxOver)
  \/ Tick
  \/ cleanupStaleConnections

SpecRate == Init /\ [][NextRate]_vars

\* SpecNotify: the fallback file filled past keepLast entries.
NextNotify ==
  \/ Connect("s1")
  \/ handleAgentRegistration("s1", "a1", TRUE, MaxBurst, keepLast + MaxOver)
  \/ handleDisconnection("s1", keepLast + MaxOver)
  \/ Tick
  \/ cleanupStaleConnections

SpecNotify == Init /\ [][NextNotify]_vars

\* SpecAsync: invocations of handleTaskUpdate interleaved at their awaits.
NextAsync ==
  \/ \E s \in Sockets : Connect(s)
  \/ handleAgentRegistration("s1", "a1", TRUE, MaxHandlers + 1, 0)
  \/ \E s \in Sockets, status \in {"in_progress", "completed", "failed"} :
       TaskUpdateStart(s, "t1", status, "{m}", MaxHandlers + 1)
  \/ \E i \in 1..MaxHandlers : TaskUpdateSelect(i)
  \/ \E i \in 1..MaxHandlers : PerformanceSelect(i)
  \/ \E i \in 1..MaxHandlers : PerformanceUpdate(i)
  \/ \E i \in 1..MaxHandlers : TaskUpdateNotify(i, MaxFallback)

SpecAsync == Init /\ [][NextAsync]_vars

\* SpecApi: /api requests of one address against the REST limiter.
NextApi ==
  \/ rateLimiter("ip1", apiPoints + MaxOver)
  \/ Elapse

SpecApi == Init /\ [][NextApi]_vars

\* SpecMessage: two agents exchanging messages across registrations and
\* disconnects, every handler as one step.
NextMessage ==
  \/ \E s \in Sockets : Connect(s)
  \/ \E s \in Sockets, a \in AgentIds : handleAgentRegistration(s, a, TRUE, MaxBurst, 0)
  \/ \E s \in Sockets, to \in AgentIds \cup {NoAgent}, type \in MessageTypeInputs :
       handleAgentMessage(s, to, type, MaxBurst)
  \/ \E s \in Sockets : handleDisconnection(s, 0)

SpecMessage == Init /\ [][NextMessage]_vars

\* SpecFault: SpecAsync with database calls that may reject.
NextFault ==
  \/ \E s \in Sockets : Connect(s)
  \/ handleAgentRegistration("s1", "a1", TRUE, MaxHandlers + 1, 0)
  \/ \E s \in Sockets, status \in {"completed", "failed", Invalid} :
       TaskUpdateStart(s, "t1", status, "{m}", MaxHandlers + 1)
  \/ \E i \in 1..MaxHandlers : TaskUpdateSelect(i)
  \/ \E i \in 1..MaxHandlers : PerformanceSelect(i)
  \/ \E i \in 1..MaxHandlers : PerformanceUpdate(i)
  \/ \E i \in 1..MaxHandlers : TaskUpdateNotify(i, 0)
  \/ \E i \in 1..MaxHandlers : PersistenceFails(i)

SpecFault == Init /\ [][NextFault]_vars

\* SpecInflight: connections, registrations, user input requests and
\* disconnects interleaved at their awaits.
NextInflight ==
  \/ \E s \in Sockets : handleConnectionStart(s)
  \/ \E i \in 1..MaxCalls : InitialDataSent(i)
  \/ \E s \in Sockets : RegistrationStart(s, "a1", MaxBurst)
  \/ \E i \in 1..MaxCalls : RegistrationInserted(i)
  \/ \E s \in Sockets : UserInputStart(s, MaxBurst)
  \/ \E i \in 1..MaxCalls : Delivered(i)
  \/ \E i \in 1..MaxCalls : DeliveryFails(i, MaxFallback)
  \/ \E i \in 1..MaxCalls : FallbackWrite(i)
  \/ \E s \in Sockets : onDisconnect(s, 0)

SpecInflight == Init /\ [][NextInflight]_vars

\* ----------------------------------------------------------------- claims
Terminal == {"completed", "failed", "cancelled"}
Bound(s) == MapHas(connectedAgents, s)
Bindings(a) == {i \in 1..Len(connectedAgents) : connectedAgents[i].agentId = a}
ErrorTo(s) == \E e \in emitted' : e.to = s /\ e.event = "error"

\* The broadcast event each socket event is fanned out as.
FanOutEvent(event) ==
  CASE event = "agent_register" -> "agent_update"
    [] event = "agent_status" -> "agent_update"
    [] event = "request_user_input" -> "user_input_request"
    [] OTHER -> event

\* The events the handlers tie to the identity of the sending connection.
IdentityScoped ==
  {"agent_status", "task_update", "project_update", "agent_message", "request_user_input"}

\* C1: once a task's stored status is completed, failed or cancelled, a
\* task_update naming it leaves the row unchanged and is answered with an
\* error to the sender.
C1_TerminalTaskFrozen ==
  [][\A t \in DOMAIN tasks :
       (/\ tasks[t].status \in Terminal
        /\ packet'.admitted /\ packet'.event = "task_update" /\ packet'.target = t)
       => (tasks'[t] = tasks[t] /\ ErrorTo(packet'.socket))]_vars

\* C2: the registry holds at most one binding for each agent id at every
\* point in time.
C2_OneBindingPerAgent == \A a \in AgentIds : Cardinality(Bindings(a)) <= 1

\* C3: an event of a key that has already issued `points` events in the
\* current window is rejected and its handler does not run: the store, the
\* registry and the fallback file stay as they are, nothing is broadcast and
\* no notification is sent.
C3_RejectedNoSideEffects ==
  [][\A k \in Keys :
       (/\ websocketLimiter[k].ttl > 0
        /\ websocketLimiter[k].consumed >= points
        /\ websocketLimiter'[k].consumed = websocketLimiter[k].consumed + 1)
       => (/\ ~packet'.admitted
           /\ UNCHANGED <<store, connectedAgents, connectedClients, notificationFile, appended>>
           /\ delivered' = {}
           /\ \A e \in emitted' :
                e.to = packet'.socket /\ e.event = "rate_limit_exceeded")]_vars

\* C4: every rejection by the rate limiter sends the rejected client an
\* envelope that carries retryAfterSeconds.
C4_RejectionCarriesRetryAfter ==
  (packet.event # "" /\ ~packet.admitted)
  => \E e \in emitted : e.to = packet.socket /\ "retryAfterSeconds" \in e.keys

\* C5: a sweep over a binding that is idle for longer than the staleness
\* threshold removes the binding and leaves the agent's row offline.
C5_ReapedAgentOffline ==
  [][\A i \in 1..Len(connectedAgents) :
       (/\ sweepDue /\ ~sweepDue'
        /\ TimeSinceActivity(connectedAgents[i]) > staleThreshold)
       => (/\ ~MapHas(connectedAgents', connectedAgents[i].socketId)
           /\ agents'[connectedAgents[i].agentId].status = "offline")]_vars

\* C6: every accepted socket event that changes the store (and every
\* request_user_input of a bound connection) is fanned out to every
\* connected client, the sender included.
C6_AcceptedEventFansOut ==
  [][(/\ packet'.admitted
      /\ \/ store' # store
         \/ (packet'.event = "request_user_input" /\ Bound(packet'.socket)))
     => (/\ packet'.socket \in connectedClients'
         /\ \A c \in connectedClients' :
              \E e \in emitted' : e.to = c /\ e.event = FanOutEvent(packet'.event))]_vars

\* C6 witness: a bound connection completed a task while a second, unbound
\* client was connected, and both received the task_update broadcast.
C6_Witness ==
  /\ packet.admitted /\ packet.event = "task_update" /\ packet.socket = "s1"
  /\ connectedClients = Sockets
  /\ Bound("s1") /\ ~Bound("s2")
  /\ tasks["t1"].status = "completed"
  /\ \A c \in Sockets : \E e \in emitted : e.to = c /\ e.event = "task_update"

\* C7: a request_user_input of a bound connection whose notification the
\* openclaw command fails to deliver is still broadcast, draws no error
\* envelope, and appends exactly one entry, its own, to the fallback file.
C7_FailedDeliveryAbsorbed ==
  [][(/\ packet'.admitted /\ packet'.event = "request_user_input"
      /\ Bound(packet'.socket)
      /\ delivered' = {})
     => (/\ \A c \in connectedClients :
              \E e \in emitted' : e.to = c /\ e.event = "user_input_request"
         /\ \A e \in emitted' : e.event # "error"
         /\ appended' = appended + 1
         /\ Len(notificationFile') = Min(Len(notificationFile) + 1, keepLast)
         /\ notificationFile'[Len(notificationFile')] =
              [seq |-> appended', title |-> "Input Needed", priority |-> "high"]
         /\ \A i \in 1..(Len(notificationFile') - 1) :
              notificationFile'[i] =
                notificationFile[i + Len(notificationFile) + 1 - Len(notificationFile')])]_vars

\* C7 witness: a request_user_input whose delivery failed was broadcast and
\* left its entry as the second one of the fallback file.
C7_Witness ==
  /\ packet.admitted /\ packet.event = "request_user_input"
  /\ delivered = {}
  /\ Len(notificationFile) = 2
  /\ notificationFile[2].title = "Input Needed"
  /\ \E e \in emitted : e.event = "user_input_request" /\ e.to = "s2"

\* C8: the fallback file holds at most keepLast entries, and they are the
\* most recently appended ones in the order of their appends.
C8_FallbackKeepsLast ==
  /\ Len(notificationFile) = Min(appended, keepLast)
  /\ \A i \in 1..Len(notificationFile) :
       notificationFile[i].seq = appended - Len(notificationFile) + i

\* C8 witness: two appends past keepLast, the file holds keepLast entries
\* and the two oldest are gone.
C8_Witness ==
  /\ appended = keepLast + 2
  /\ Len(notificationFile) = keepLast
  /\ notificationFile[1].seq = 3

\* C9: an agent row whose id no connection is bound to has status offline.
C9_UnboundAgentOffline ==
  \A a \in DOMAIN agents : Bindings(a) = {} => agents[a].status = "offline"

\* C10: an identity-scoped event of a connection that is not in the registry
\* changes no stored row and is answered with "Agent not registered".
C10_UnboundCannotMutate ==
  [][(/\ packet'.admitted /\ packet'.event \in IdentityScoped
      /\ ~Bound(packet'.socket))
     => (/\ store' = store
         /\ \E e \in emitted' : /\ e.to = packet'.socket /\ e.event = "error"
                                /\ e.type = "Agent not registered")]_vars

\* ------------------------------------------------------- claims, continued
Broadcast(type) ==
  \A c \in connectedClients' :
    \E e \in emitted' : e.to = c /\ e.event = "agent_update" /\ e.type = type
Notified == delivered' # {} \/ appended' = appended + 1
fifteenMinutes == 15 * 60 * msPerSecond

\* C11: when an invocation of a handler starts (and runs its write), every
\* earlier invocation for the same connection has completed.
C11_PerConnectionFifo ==
  [][\A j \in 1..Len(running') :
       j > Len(running)
       => \A i \in 1..Len(running) :
            running[i].socket = running'[j].socket => running[i].pc = "done"]_vars

\* C12: a connection receives initial_data exactly once, when it is
\* established, and the snapshot lists every agent registered before.
C12_SnapshotListsRegisteredAgents ==
  [][\A s \in Sockets :
       LET snapshots == {e \in emitted' : e.to = s /\ e.event = "initial_data"} IN
       IF s \notin connectedClients /\ s \in connectedClients'
       THEN /\ Cardinality(snapshots) = 1
            /\ \A e \in snapshots : DOMAIN agents \subseteq e.agents
       ELSE snapshots = {}]_vars

\* C12 witness: s2 connected after a1 had registered and its snapshot lists a1.
C12_Witness ==
  /\ "a1" \in DOMAIN agents
  /\ \E e \in emitted : e.to = "s2" /\ e.event = "initial_data" /\ e.agents = {"a1"}

\* C13: within the first 15 minutes the REST limiter lets through at most
\* apiPoints requests of one address, and a 429 carries a Retry-After of at
\* least one second.
C13_ApiLimitPerWindow ==
  /\ apiElapsed < fifteenMinutes => apiAdmitted <= apiPoints
  /\ response.status = 429 => response.retryAfter >= 1

\* C14: a successful agent_register of an id that has a row keeps the row's
\* tasks_completed, success_rate, error_count, average_task_time and
\* created_at; of an id without a row it creates one with 0 / 100 / 0.
C14_RegistrationKeepsCounters ==
  [][(/\ packet'.admitted /\ packet'.event = "agent_register"
      /\ \E e \in emitted' : e.event = "agent_update" /\ e.type = "registered")
     => LET a == packet'.target IN
        /\ a \in DOMAIN agents'
        /\ agents'[a].socket_id = packet'.socket /\ agents'[a].status = "active"
        /\ IF a \in DOMAIN agents
           THEN /\ agents'[a].tasks_completed = agents[a].tasks_completed
                /\ agents'[a].success_rate = agents[a].success_rate
                /\ agents'[a].error_count = agents[a].error_count
                /\ agents'[a].average_task_time = agents[a].average_task_time
                /\ agents'[a].created_at = agents[a].created_at
           ELSE /\ agents'[a].tasks_completed = 0
                /\ agents'[a].success_rate = 100 * RateScale
                /\ agents'[a].error_count = 0]_vars

\* C14 witness: a1, created during the first connection and with one task
\* completed, has just been registered again from the second connection.
C14_Witness ==
  /\ packet.admitted /\ packet.event = "agent_register" /\ packet.socket = "s2"
  /\ "a1" \in DOMAIN agents
  /\ agents["a1"].socket_id = "s2"
  /\ agents["a1"].tasks_completed = 1
  /\ agents["a1"].created_at = 1 /\ Now = 2

\* C15: a task_update of a bound connection that stores completed or failed
\* adds 1 to the agent's tasks_completed, adds 1 to error_count exactly for
\* failed, and makes success_rate the running average; any other task_update
\* leaves the agent rows as they are.
C15_PerformanceCounters ==
  [][(packet'.admitted /\ packet'.event = "task_update")
     => LET s == packet'.socket
            t == packet'.target
            stored == \E e \in emitted' : e.event = "task_update"
        IN IF stored /\ Bound(s) /\ tasks'[t].status \in {"completed", "failed"}
           THEN LET a == MapGet(connectedAgents, s).agentId
                    failed == tasks'[t].status = "failed"
                IN /\ agents'[a].tasks_completed = agents[a].tasks_completed + 1
                   /\ agents'[a].error_count =
                        agents[a].error_count + (IF failed THEN 1 ELSE 0)
                   /\ agents'[a].success_rate * agents'[a].tasks_completed =
                        agents[a].success_rate * agents[a].tasks_completed
                        + (IF failed THEN 0 ELSE 100 * RateScale)
                   /\ \A x \in DOMAIN agents \ {a} : agents'[x] = agents[x]
           ELSE agents' = agents]_vars

\* C15 witness: after one completed and one failed task the agent has two
\* tasks, one error and a success rate of 50.
C15_Witness ==
  /\ packet.admitted /\ packet.event = "task_update"
  /\ tasks["t1"].status = "failed"
  /\ "a1" \in DOMAIN agents
  /\ agents["a1"].tasks_completed = 2
  /\ agents["a1"].error_count = 1
  /\ agents["a1"].success_rate = 50 * RateScale

\* C16: once every invocation has completed, an agent's tasks_completed is
\* the number of terminal task_updates it sent and its error_count the
\* number of failed ones.
C16_NoLostPerformanceUpdate ==
  (\A i \in 1..Len(running) : running[i].pc = "done")
  => \A a \in DOMAIN agents :
       /\ agents[a].tasks_completed =
            Cardinality({i \in 1..Len(running) : running[i].agentId = a})
       /\ agents[a].error_count =
            Cardinality({i \in 1..Len(running) :
                           running[i].agentId = a /\ running[i].status = "failed"})

\* C17: a project_update that stores a terminal status never leaves the
\* project's progress null.
C17_TerminalProjectKeepsProgress ==
  [][\A p \in DOMAIN projects :
       (/\ packet'.admitted /\ packet'.event = "project_update" /\ packet'.target = p
        /\ projects'[p].status \in {"completed", "cancelled"})
       => projects'[p].progress # Null]_vars

\* C18: a request_user_input of a bound connection appends one row to the
\* communications table.
C18_UserInputAppendsCommunication ==
  [][(/\ packet'.admitted /\ packet'.event = "request_user_input"
      /\ Bound(packet'.socket))
     => Len(communications') = Len(communications) + 1]_vars

\* C19: the disconnect of a bound connection removes its binding, leaves the
\* bound agent's row offline, broadcasts agent_update disconnected to the
\* remaining clients and notifies; the disconnect of an unbound connection
\* changes no agent row and broadcasts no agent_update.
C19_DisconnectMarksOffline ==
  [][\A s \in connectedClients \ connectedClients' :
       IF Bound(s)
       THEN /\ ~MapHas(connectedAgents', s)
            /\ agents'[MapGet(connectedAgents, s).agentId].status = "offline"
            /\ Broadcast("disconnected")
            /\ Notified
       ELSE /\ agents' = agents
            /\ \A e \in emitted' : e.event # "agent_update"]_vars

\* C20: a sweep that evicts a binding broadcasts agent_update disconnected
\* to every connected client and notifies.
C20_ReaperFansOut ==
  [][(/\ sweepDue /\ ~sweepDue'
      /\ \E i \in 1..Len(connectedAgents) :
           TimeSinceActivity(connectedAgents[i]) > staleThreshold)
     => (Broadcast("disconnected") /\ Notified)]_vars

\* -------------------------------------------------- claims, third part
\* The inbound events the claim on last-activity lists.
Touching ==
  {"agent_status", "task_update", "project_update", "agent_message", "request_user_input",
   "ping"}
UpdateEvents == {"agent_update", "task_update", "project_update"}

\* C21: every accepted status-update, task-update, project-update,
\* agent-message, request-user-input or ping of a bound connection leaves
\* that connection's binding with a last-activity of now.
C21_AcceptedEventTouches ==
  [][(/\ packet'.admitted /\ packet'.event \in Touching
      /\ Bound(packet'.socket)
      /\ \A e \in emitted' : e.event # "error")
     => (/\ MapHas(connectedAgents', packet'.socket)
         /\ MapGet(connectedAgents', packet'.socket).idle = 0)]_vars

\* C22: when a database call of a task_update invocation rejects, the
\* sender gets an error envelope, nobody else gets anything, the
\* invocation's task_update has not been broadcast, and the connections and
\* bindings stay as they are.
C22_PersistenceFailureIsolated ==
  [][\A i \in 1..MaxHandlers :
       PersistenceFails(i)
       => (/\ \E e \in emitted' : e.to = running[i].socket /\ e.event = "error"
           /\ \A e \in emitted' : e.to = running[i].socket
           /\ running[i].pc \notin {"perfSelect", "perfUpdate"}
           /\ UNCHANGED <<connectedClients, connectedAgents>>)]_vars

\* C23: the limiter buckets of two different connections are different:
\* a packet of one connection leaves the bucket of every other connection
\* as it is.
C23_BucketPerConnection ==
  [][\A s \in connectedClients :
       (packet'.event # "" /\ packet'.socket # s)
       => websocketLimiter'[RateKey(s, Address[s])] = websocketLimiter[RateKey(s, Address[s])]]_vars

\* C24: the registry holds no binding for a connection whose disconnect
\* has been handled.
C24_ClosedStaysUnbound == \A s \in closedSockets : ~MapHas(connectedAgents, s)

\* C25: no invocation waits for the outcome of a delivery attempt (the
\* openclaw command or the fallback write) before it has emitted its
\* broadcast.
C25_BroadcastBeforeDelivery ==
  \A i \in 1..Len(pending) :
    pending[i].pc \in {"deliver", "write"} => pending[i].broadcast

\* C26: an agent_message that draws no error appends exactly one row, from
\* the sender's agent to the target, and leaves the existing rows as they
\* are; it is broadcast to every connected client and to nobody else, and
\* direct_message goes to at most one connection, one bound to the target,
\* and to none exactly if no connection is bound to it.  One that draws an
\* error stores and broadcasts nothing.
C26_MessageAppendsOnce ==
  [][(packet'.admitted /\ packet'.event = "agent_message")
     => LET s == packet'.socket
            to == packet'.target
            news == {e \in emitted' : e.event = "agent_message"}
            direct == {e \in emitted' : e.event = "direct_message"}
        IN IF ErrorTo(s)
           THEN communications' = communications /\ news = {} /\ direct = {}
           ELSE /\ Bound(s)
                /\ Len(communications') = Len(communications) + 1
                /\ SubSeq(communications', 1, Len(communications)) = communications
                /\ communications'[Len(communications')].from_agent_id
                     = MapGet(connectedAgents, s).agentId
                /\ communications'[Len(communications')].to_agent_id = to
                /\ {e.to : e \in news} = connectedClients
                /\ Cardinality(news) = Cardinality(connectedClients)
                /\ Cardinality(direct) <= 1
                /\ \A e \in direct :
                     Bound(e.to) /\ MapGet(connectedAgents, e.to).agentId = to
                /\ direct = {} <=> (to = NoAgent \/ Bindings(to) = {})]_vars

\* C26 witness: a1, bound to s1, has sent a message to a2, bound to s2: one
\* row, the broadcast to both clients and the direct_message to s2.
C26_Witness ==
  /\ packet.admitted /\ packet.event = "agent_message" /\ packet.socket = "s1"
  /\ Len(communications) = 1
  /\ communications[1].from_agent_id = "a1" /\ communications[1].to_agent_id = "a2"
  /\ \A c \in Sockets : \E e \in emitted : e.to = c /\ e.event = "agent_message"
  /\ \E e \in emitted : e.to = "s2" /\ e.event = "direct_message"
  /\ \A e \in emitted : e.event = "direct_message" => e.to = "s2"

\* C27: the disconnect of a connection changes no agent row whose socket_id
\* is another socket and removes no other connection's binding: an agent
\* that has registered again from a new connection keeps its active row and
\* its new binding.
C27_ReconnectSafe ==
  [][\A s \in connectedClients \ connectedClients' :
       /\ \A x \in DOMAIN agents : agents[x].socket_id # s => agents'[x] = agents[x]
       /\ \A t \in Sockets \ {s} :
            Bound(t) => (/\ MapHas(connectedAgents', t)
                         /\ MapGet(connectedAgents', t) = MapGet(connectedAgents, t))]_vars

\* C27 witness: a1 registered on s1, then on s2, then s1 disconnected while
\* still bound to a1; the row is active on s2 and s2's binding is in place.
C27_Witness ==
  /\ closedSockets = {"s1"}
  /\ \E e \in emitted : e.event = "agent_update" /\ e.type = "disconnected" /\ e.id = "a1"
  /\ "a1" \in DOMAIN agents
  /\ agents["a1"].socket_id = "s2" /\ agents["a1"].status = "active"
  /\ Bound("s2") /\ MapGet(connectedAgents, "s2").agentId = "a1"

\* C28: every entry among the last keepLast ones written to the fallback
\* file is in the file.
C28_NoFallbackEntryLost ==
  \A n \in 1..appended :
    appended - n < keepLast
    => \E j \in 1..Len(notificationFile) : notificationFile[j].seq = n

\* C29: no agent_update, task_update or project_update is sent to a
\* connection that has not been sent its initial_data yet.
C29_InitialDataFirst ==
  [][\A e \in emitted' : e.event \in UpdateEvents => ~AwaitingInitialData(e.to)]_vars

\* C30: with every handler run to its end before the next one starts, each
\* update envelope carries the status its entity has in the store after the
\* step, and, while a client is connected, each row whose status has changed
\* is carried by an envelope: the last envelope broadcast for an entity
\* carries its stored state.
C30_LastEnvelopeCarriesStoredState ==
  [][/\ \A e \in emitted' :
          /\ e.event = "agent_update"
               => (e.id \in DOMAIN agents' /\ agents'[e.id].status = e.status)
          /\ e.event = "task_update" => tasks'[e.id].status = e.status
          /\ e.event = "project_update" => projects'[e.id].status = e.status
     /\ connectedClients' # {}
        => /\ \A a \in DOMAIN agents' :
                (a \notin DOMAIN agents \/ agents'[a].status # agents[a].status)
                => \E e \in emitted' : e.event = "agent_update" /\ e.id = a
           /\ \A x \in DOMAIN tasks :
                tasks'[x].status # tasks[x].status
                => \E e \in emitted' : e.event = "task_update" /\ e.id = x
           /\ \A x \in DOMAIN projects :
                projects'[x].status # projects[x].status
                => \E e \in emitted' : e.event = "project_update" /\ e.id = x]_vars

====
